---- MODULE Spec2Model ----
(***************************************************************************)
(* SignalSDR: the Scan Eligibility Store (signalsdr/state.py) and the two  *)
(* pipeline passes that use it (main.py).                                  *)
(*                                                                         *)
(* Time is counted in whole hours since an arbitrary epoch.  A stored      *)
(* timestamp is datetime.now(timezone.utc).isoformat(), read back with     *)
(* datetime.fromisoformat: the round trip is exact, so a timestamp is      *)
(* modelled by the hour it was taken.  now[:10], the date of a history     *)
(* entry, is the day number clock \div 24.                                 *)
(***************************************************************************)
EXTENDS Integers, Sequences, FiniteSets, TLC

VARIABLES
    file,       \* data/db.json: [state, companies]
    clock,      \* the current instant, in hours
    calls,      \* number of record_scan calls made so far
    ret,        \* the store call that has just returned: its arguments and its outcome
    lastRec,    \* per (domain, scan_type): the instant of the last completed record_scan
    procs,      \* concurrent record_scan calls: where each is, what it loaded
    pass,       \* the pipeline pass under way: its kind, flags, position and stats
    turn,       \* what the pass did for the company it handled last
    fn          \* the function applied last to a drawn input: its arguments and result

vars == <<file, clock, calls, ret, lastRec, procs, pass, turn, fn>>
pipe == <<pass, turn>>

----------------------------------------------------------------------------
(* Bounds of the model *)

MaxCalls == 2       \* record_scan calls per behaviour
MaxClock == 36      \* the clock stops here
MaxPasses == 2      \* pipeline passes per behaviour
MaxSignals == 4     \* signals in a pool handed to deduplication
MaxCount == 3       \* largest cap on the signals kept per company
MaxLines == 3       \* lines in a text handed to the analyzer

(* Program constants *)

RESCAN_COOLDOWN_HOURS == 24
MAX_PROSPECT_SIGNALS_PER_COMPANY == 5

----------------------------------------------------------------------------
(* Inputs *)

\* Two domains that differ only in case: distinct keys for the store.
Domains == {"acme.com", "Acme.com"}
Names == {"Acme", "Acme Inc"}
ScanTypes == {"hiring", "prospect"}

\* The clock advances in steps of half a cooldown window.
TickHours == RESCAN_COOLDOWN_HOURS \div 2

\* A key a signal dict does not have.
Absent == "<absent>"

HiringDict(k, m) ==
    [keyword |-> k, matched_text |-> m,
     category |-> Absent, headline |-> Absent, snippet |-> Absent]

ProspectDict(c, h, s) ==
    [keyword |-> Absent, matched_text |-> Absent,
     category |-> c, headline |-> h, snippet |-> s]

\* The signal lists record_scan is called with, per scan type.
SignalLists(scan_type) ==
    IF scan_type = "hiring"
    THEN { <<>>,
           << HiringDict("VP", "VP of Security") >>,
           << HiringDict("VP", "VP of Security"), HiringDict("AI", "Head of AI") >> }
    ELSE { <<>>,
           << ProspectDict("new_model", "X", "x") >>,
           << ProspectDict("new_model", "X", "x"), ProspectDict("regulatory", "Z", "z") >> }

----------------------------------------------------------------------------
(* signalsdr/state.py *)

\* dict.get(key, default)
Get(s, key, default) == IF s[key] = Absent THEN default ELSE s[key]

MissingFile == [state |-> "missing", companies |-> <<>>]
\* The file just after open(db_path, "w"): zero bytes, which json.load rejects.
EmptyFile == [state |-> "empty", companies |-> <<>>]
\* A document overwritten from offset 0 by a shorter one: json.load rejects it.
GarbledFile == [state |-> "garbled", companies |-> <<>>]
DocFile(companies) == [state |-> "ok", companies |-> companies]

\* _load_db: the document, or the exception json.load raises
_load_db(f) ==
    IF f.state = "missing" THEN [raised |-> FALSE, companies |-> <<>>]
    ELSE IF f.state = "ok" THEN [raised |-> FALSE, companies |-> f.companies]
    ELSE [raised |-> TRUE, companies |-> <<>>]

\* _save_db: the file after mkdir, open(.., "w") and json.dump have completed
_save_db(companies) == DocFile(companies)

\* Faulty variant: one timestamp key for both scan types.
ts_key_Shared(scan_type) == "last_scan"

ts_key(scan_type) == IF scan_type = "hiring" THEN "last_scan" ELSE "last_prospect_scan"

\* Faulty variant: the loop compares the wrong field and never finds the record.
FindCompany_WrongField(companies, domain) ==
    LET hits == {i \in 1..Len(companies) : companies[i].name = domain}
    IN IF hits = {} THEN 0 ELSE CHOOSE i \in hits : \A j \in hits : i <= j

\* for company in db["companies"]: if company.get("domain") == domain: ... (first match)
\* 0 when the loop finds none
FindCompany(companies, domain) ==
    LET hits == {i \in 1..Len(companies) : companies[i].domain = domain}
    IN IF hits = {} THEN 0 ELSE CHOOSE i \in hits : \A j \in hits : i <= j

\* Faulty variant: the comparison made strict.
CooldownOver_Strict(now, last) == now - last > RESCAN_COOLDOWN_HOURS

\* hours_since >= RESCAN_COOLDOWN_HOURS
CooldownOver(now, last) == now - last >= RESCAN_COOLDOWN_HOURS

\* should_scan on a loaded document
ShouldScanDoc(companies, domain, scan_type, now) ==
    LET i == FindCompany(companies, domain)
    IN IF i = 0 THEN TRUE
       ELSE LET last_scan == companies[i][ts_key(scan_type)]
            IN IF last_scan = <<>> THEN TRUE
               ELSE CooldownOver(now, last_scan[1])

\* should_scan: [raised, result]
should_scan(f, domain, scan_type, now) ==
    LET db == _load_db(f)
    IN IF db.raised THEN [raised |-> TRUE, result |-> FALSE]
       ELSE [raised |-> FALSE,
             result |-> ShouldScanDoc(db.companies, domain, scan_type, now)]

\* one history entry {date, type, details}
SignalRecord(s, scan_type, now) ==
    IF scan_type = "prospect"
    THEN [date |-> now \div 24,
          type |-> <<"prospect_", Get(s, "category", "unknown")>>,
          details |-> << Get(s, "headline", Get(s, "snippet", "unknown")) >>]
    ELSE [date |-> now \div 24,
          type |-> <<"hiring">>,
          details |-> <<"Found role: ", Get(s, "matched_text", Get(s, "keyword", "unknown"))>>]

signal_records(signals, scan_type, now) ==
    [k \in 1..Len(signals) |-> SignalRecord(signals[k], scan_type, now)]

StatusOf(signals) == IF signals # <<>> THEN "signal_found" ELSE "no_signal"

\* Faulty variant: the existing record's timestamp is not refreshed.
UpdateExisting_StaleTimestamp(existing, signals, scan_type, now) ==
    [existing EXCEPT
        !.status = StatusOf(signals),
        !.signals = IF signals # <<>>
                    THEN @ \o signal_records(signals, scan_type, now)
                    ELSE @]

\* Faulty variant: the history is assigned, not extended.
UpdateExisting_Overwrite(existing, signals, scan_type, now) ==
    [existing EXCEPT
        ![ts_key(scan_type)] = <<now>>,
        !.status = StatusOf(signals),
        !.signals = IF signals # <<>>
                    THEN signal_records(signals, scan_type, now)
                    ELSE @]

\* Faulty variant: a signal_found status is kept by an empty scan.
UpdateExisting_StickyStatus(existing, signals, scan_type, now) ==
    [existing EXCEPT
        ![ts_key(scan_type)] = <<now>>,
        !.status = IF signals # <<>> THEN "signal_found" ELSE @,
        !.signals = IF signals # <<>>
                    THEN @ \o signal_records(signals, scan_type, now)
                    ELSE @]

\* Faulty variant: entries the history already holds are not added again.
UpdateExisting_SkipsKnown(existing, signals, scan_type, now) ==
    [existing EXCEPT
        ![ts_key(scan_type)] = <<now>>,
        !.status = StatusOf(signals),
        !.signals = IF signals # <<>>
                    THEN @ \o SelectSeq(signal_records(signals, scan_type, now),
                                        LAMBDA e : \A k \in 1..Len(existing.signals) :
                                                      existing.signals[k] # e)
                    ELSE @]

\* the "if existing:" branch
UpdateExisting(existing, signals, scan_type, now) ==
    [existing EXCEPT
        ![ts_key(scan_type)] = <<now>>,
        !.status = StatusOf(signals),
        !.signals = IF signals # <<>>
                    THEN @ \o signal_records(signals, scan_type, now)
                    ELSE @]

\* the "else:" branch; the key of the other scan type is not set
NewEntry(companies, domain, company_name, signals, scan_type, now) ==
    [ [id |-> Len(companies) + 1,
       name |-> company_name,
       domain |-> domain,
       last_scan |-> <<>>,
       last_prospect_scan |-> <<>>,
       status |-> StatusOf(signals),
       signals |-> signal_records(signals, scan_type, now)]
      EXCEPT ![ts_key(scan_type)] = <<now>> ]

\* Faulty variant: the existing record takes the name the call was given.
RecordScanDoc_Renames(companies, domain, company_name, signals, scan_type, now) ==
    LET i == FindCompany(companies, domain)
    IN IF i # 0
       THEN [companies EXCEPT ![i] = [UpdateExisting(@, signals, scan_type, now)
                                        EXCEPT !.name = company_name]]
       ELSE Append(companies,
                   NewEntry(companies, domain, company_name, signals, scan_type, now))

\* record_scan on a loaded document: the document it saves
RecordScanDoc(companies, domain, company_name, signals, scan_type, now) ==
    LET i == FindCompany(companies, domain)
    IN IF i # 0
       THEN [companies EXCEPT ![i] = UpdateExisting(@, signals, scan_type, now)]
       ELSE Append(companies,
                   NewEntry(companies, domain, company_name, signals, scan_type, now))

\* record_scan: [raised, file]
record_scan(f, domain, company_name, signals, scan_type, now) ==
    LET db == _load_db(f)
    IN IF db.raised THEN [raised |-> TRUE, file |-> f]
       ELSE [raised |-> FALSE,
             file |-> _save_db(RecordScanDoc(db.companies, domain, company_name,
                                             signals, scan_type, now))]

----------------------------------------------------------------------------
(* main.py: what a pass starts from *)

\* stats = {"scanned": 0, "skipped": 0, "signals": 0, "drafts": 0, "filtered": 0, "errors": 0}
Stats0 ==
    [scanned |-> 0, skipped |-> 0, signals |-> 0, drafts |-> 0, filtered |-> 0, errors |-> 0]

NoPass ==
    [kind |-> "idle", dry_run |-> FALSE, has_brave |-> FALSE, i |-> 0, stats |-> Stats0,
     started |-> 0]

\* Nothing done yet for the company at hand.
NoLog ==
    [idx |-> 0, scan_type |-> "", consulted |-> FALSE, eligible |-> FALSE, fetches |-> 0, queries |-> 0,
     found |-> <<>>, outcomes |-> "", drafted |-> <<>>, records |-> <<>>]

\* No function applied yet.
NoFn == [op |-> "none"]

----------------------------------------------------------------------------
(* The store called directly, one call at a time *)

NoCall ==
    [op |-> "none", domain |-> "", scan_type |-> "", signals |-> <<>>,
     read |-> "", raised |-> FALSE, result |-> FALSE]

Procs == {1, 2}

Idle ==
    [pc |-> "idle", domain |-> "", name |-> "", scan_type |-> "", signals |-> <<>>,
     now |-> 0, snapshot |-> <<>>, doc |-> <<>>,
     order |-> 0, raced |-> FALSE, overlapped |-> FALSE]

Init ==
    /\ file = MissingFile
    /\ clock = 0
    /\ calls = 0
    /\ ret = NoCall
    /\ lastRec = [k \in Domains \X ScanTypes |-> <<>>]
    /\ procs = [p \in Procs |-> Idle]
    /\ pass = NoPass
    /\ turn = NoLog
    /\ fn = NoFn

ShouldScanCall ==
    \E d \in Domains, t \in ScanTypes :
        LET r == should_scan(file, d, t, clock)
        IN /\ ret' = [op |-> "should_scan", domain |-> d, scan_type |-> t,
                      signals |-> <<>>, read |-> file.state,
                      raised |-> r.raised, result |-> r.result]
           /\ UNCHANGED <<file, clock, calls, lastRec, procs, pipe, fn>>

RecordScanCall ==
    /\ calls < MaxCalls
    /\ \E d \in Domains, n \in Names, t \in ScanTypes :
        \E sigs \in SignalLists(t) :
            LET r == record_scan(file, d, n, sigs, t, clock)
            IN /\ file' = r.file
               /\ calls' = calls + 1
               /\ ret' = [op |-> "record_scan", domain |-> d, scan_type |-> t,
                          signals |-> sigs, read |-> file.state,
                          raised |-> r.raised, result |-> FALSE]
               /\ lastRec' = IF r.raised THEN lastRec
                             ELSE [lastRec EXCEPT ![<<d, t>>] = <<clock>>]
               /\ UNCHANGED <<clock, procs, pipe, fn>>

Tick ==
    /\ clock + TickHours <= MaxClock
    /\ clock' = clock + TickHours
    /\ ret' = NoCall
    /\ UNCHANGED <<file, calls, lastRec, procs, pipe, fn>>

Next == ShouldScanCall \/ RecordScanCall \/ Tick

Spec == Init /\ [][Next]_vars

----------------------------------------------------------------------------
(* A record_scan that does not complete *)

\* record_scan whose process is killed inside _save_db, after open(db_path, "w")
\* has truncated the file and before json.dump's output reaches it.
SaveInterrupted ==
    /\ calls < MaxCalls
    /\ ~_load_db(file).raised
    /\ file' = EmptyFile
    /\ calls' = calls + 1
    /\ ret' = [NoCall EXCEPT !.op = "killed"]
    /\ UNCHANGED <<clock, lastRec, procs, pipe, fn>>

NextFault == ShouldScanCall \/ RecordScanCall \/ Tick \/ SaveInterrupted

SpecFault == Init /\ [][NextFault]_vars

----------------------------------------------------------------------------
(* Two record_scan calls running at once, with no lock around the store *)

\* The store left by an earlier run: acme.com, one hiring signal.
SeedFile ==
    record_scan(MissingFile, "acme.com", "Acme",
                << HiringDict("VP", "VP of Security") >>, "hiring", 0).file

InitConc ==
    /\ file \in {MissingFile, SeedFile}
    /\ clock = 0
    /\ calls = 0
    /\ ret = NoCall
    /\ lastRec = [k \in Domains \X ScanTypes |-> <<>>]
    /\ procs = [p \in Procs |-> Idle]
    /\ pass = NoPass
    /\ turn = NoLog
    /\ fn = NoFn

Others(p) == Procs \ {p}

\* Faulty variant: the store is read again just before it is written.
DocInHand_Reload(snapshot, f) ==
    IF _load_db(f).raised THEN snapshot ELSE _load_db(f).companies

\* The dict record_scan changes and saves is the one it loaded on entry;
\* the file is not read again.
DocInHand(snapshot, f) == snapshot

\* db = _load_db(db_path); now = datetime.now(timezone.utc).isoformat()
Load(p) ==
    /\ procs[p].pc = "idle"
    /\ \E d \in Domains, n \in Names, t \in ScanTypes :
        \E sigs \in SignalLists(t) :
            LET db == _load_db(file)
                call == [Idle EXCEPT !.domain = d, !.name = n, !.scan_type = t,
                                     !.signals = sigs, !.now = clock]
            IN procs' = [procs EXCEPT ![p] =
                   IF db.raised
                   THEN [call EXCEPT !.pc = "raised"]
                   ELSE [call EXCEPT
                            !.pc = "loaded",
                            !.snapshot = db.companies,
                            !.raced = \A q \in Others(p) : procs[q].pc \in {"idle", "loaded"}]]
    /\ UNCHANGED <<file, clock, calls, ret, lastRec, pipe, fn>>

\* the record is found or created in memory, then _save_db opens the file for
\* writing, which truncates it
Open(p) ==
    /\ procs[p].pc = "loaded"
    /\ file' = EmptyFile
    /\ procs' = [procs EXCEPT ![p] =
           [@ EXCEPT
              !.pc = "writing",
              !.doc = RecordScanDoc(DocInHand(procs[p].snapshot, file),
                                    procs[p].domain, procs[p].name, procs[p].signals,
                                    procs[p].scan_type, procs[p].now),
              !.overlapped = \E q \in Others(p) : procs[q].pc = "writing"]]
    /\ UNCHANGED <<clock, calls, ret, lastRec, pipe, fn>>

\* What the file holds once json.dump's output is written at offset 0 and the
\* file is closed.  When another call has written since this one truncated the
\* file, the bytes beyond the new document's length stay: a valid document if
\* the new one is at least as long, an unparseable one if it is shorter.
Written(f, doc) ==
    IF f.state = "empty" THEN {_save_db(doc)} ELSE {_save_db(doc), GarbledFile}

Dump(p) ==
    /\ procs[p].pc = "writing"
    /\ file' \in Written(file, procs[p].doc)
    /\ procs' = [procs EXCEPT ![p] =
           [@ EXCEPT !.pc = "done",
                     !.order = 1 + Cardinality({q \in Procs : procs[q].pc = "done"})]]
    /\ UNCHANGED <<clock, calls, ret, lastRec, pipe, fn>>

NextConc == ShouldScanCall \/ (\E p \in Procs : Load(p) \/ Open(p) \/ Dump(p))

SpecConc == InitConc /\ [][NextConc]_vars

----------------------------------------------------------------------------
(* main.py: run_hiring_pipeline and run_prospect_pipeline *)

\* targets.csv as load_targets returns it; a row without news_url has none.
Targets ==
    << [company |-> "Acme", domain |-> "acme.com",
        careers_url |-> "https://acme.com/careers", news_url |-> "https://acme.com/news"],
       [company |-> "Acme Inc", domain |-> "Acme.com",
        careers_url |-> "https://Acme.com/careers", news_url |-> ""],
       [company |-> "Acme", domain |-> "acme.com",
        careers_url |-> "", news_url |-> "https://acme.com/blog"] >>

\* analyzer.Signal
Signal(k, m, n) == [keyword |-> k, matched_text |-> m, line_number |-> n]

\* prospector.ProspectSignal
ProspectSignal(c, h, s, u) == [category |-> c, headline |-> h, snippet |-> s, source_url |-> u]

\* fetch_page followed by analyze_text: a failed fetch, a page without signals,
\* a page whose lines 1 and 4 both match "VP".
HiringPages ==
    { [success |-> FALSE, signals |-> <<>>],
      [success |-> TRUE, signals |-> <<>>],
      [success |-> TRUE,
       signals |-> << Signal("VP", "VP of Security", 1),
                      Signal("AI", "Head of AI", 3),
                      Signal("VP", "VP of Sales", 4) >>] }

\* What the search provider's results map to, category by category.
BraveSignals ==
    { <<>>,
      << ProspectSignal("new_model", "X", "x", "https://news.example/x"),
         ProspectSignal("new_model", "Y", "y", "https://news.example/y"),
         ProspectSignal("service_challenge", "S", "s", "https://news.example/s"),
         ProspectSignal("service_challenge", "W", "w", "https://news.example/w") >> }

\* scrape_news_page: a failed fetch, or a page whose first headline the search
\* also returned.
NewsPages(news_url) ==
    { [success |-> FALSE, signals |-> <<>>],
      [success |-> TRUE,
       signals |-> << ProspectSignal("new_model", "X", "X", news_url),
                      ProspectSignal("ev_transition", "E", "E", news_url),
                      ProspectSignal("regulatory", "Z", "Z", news_url) >>] }

\* list(PROSPECT_CATEGORIES.keys()): one query each
PROSPECT_CATEGORIES == <<"new_model", "service_challenge", "ev_transition", "regulatory">>

\* prospect_company: without a key it fails; with one it succeeds, a failed
\* category query only leaving that category out
prospect_company(has_key, signals) ==
    IF ~has_key THEN [success |-> FALSE, signals |-> <<>>]
    ELSE [success |-> TRUE, signals |-> signals]

\* generate_draft's EmailDraft, as far as the pipeline reads it
EmailDraft(outcome) ==
    [success |-> outcome # "failed", complete |-> outcome = "valid"]

is_valid(draft) == draft.success /\ draft.complete

\* How the draft requests of one company turn out: all alike, or mixed.
DraftOutcomes == {"valid", "filtered", "failed", "mixed"}

OutcomeAt(outcomes, k) ==
    IF outcomes # "mixed" THEN outcomes
    ELSE IF k % 3 = 1 THEN "valid" ELSE IF k % 3 = 2 THEN "filtered" ELSE "failed"

Inc(stats, field, n) == [stats EXCEPT ![field] = @ + n]

\* Faulty variant: of the signals sharing a key the last one is kept.
RECURSIVE DedupBy_KeepLast(_, _, _)
DedupBy_KeepLast(signals, key, seen) ==
    IF signals = <<>> THEN <<>>
    ELSE LET s == Head(signals)
             later == Tail(signals)
         IN IF \E k \in 1..Len(later) : later[k][key] = s[key]
            THEN DedupBy_KeepLast(later, key, seen)
            ELSE <<s>> \o DedupBy_KeepLast(later, key, seen)

\* seen = set(); for s in signals: if s.<key> not in seen: seen.add(..); kept.append(s)
RECURSIVE DedupBy(_, _, _)
DedupBy(signals, key, seen) ==
    IF signals = <<>> THEN <<>>
    ELSE LET s == Head(signals)
         IN IF s[key] \in seen
            THEN DedupBy(Tail(signals), key, seen)
            ELSE <<s>> \o DedupBy(Tail(signals), key, seen \cup {s[key]})

\* Faulty variant: diverse is built by prepending.
RECURSIVE SplitByCategory_Reversed(_, _)
SplitByCategory_Reversed(deduped, seen_cats) ==
    IF deduped = <<>> THEN [diverse |-> <<>>, remaining |-> <<>>]
    ELSE LET s == Head(deduped)
             rest == SplitByCategory_Reversed(Tail(deduped), seen_cats \cup {s.category})
         IN IF s.category \notin seen_cats
            THEN [diverse |-> rest.diverse \o <<s>>, remaining |-> rest.remaining]
            ELSE [diverse |-> rest.diverse, remaining |-> <<s>> \o rest.remaining]

\* the loop that fills diverse and remaining
RECURSIVE SplitByCategory(_, _)
SplitByCategory(deduped, seen_cats) ==
    IF deduped = <<>> THEN [diverse |-> <<>>, remaining |-> <<>>]
    ELSE LET s == Head(deduped)
             rest == SplitByCategory(Tail(deduped), seen_cats \cup {s.category})
         IN IF s.category \notin seen_cats
            THEN [diverse |-> <<s>> \o rest.diverse, remaining |-> rest.remaining]
            ELSE [diverse |-> rest.diverse, remaining |-> <<s>> \o rest.remaining]

\* Faulty variant: the cap is a plain truncation of deduped.
CapDiverse_Truncate(deduped, max_count) ==
    IF Len(deduped) > max_count THEN SubSeq(deduped, 1, max_count) ELSE deduped

\* Faulty variant: remaining is put before diverse.
CapDiverse_RemainingFirst(deduped, max_count) ==
    IF Len(deduped) > max_count
    THEN LET split == SplitByCategory(deduped, {})
         IN SubSeq(split.remaining \o split.diverse, 1, max_count)
    ELSE deduped

\* Faulty variant: the cap also applies to exactly max_count signals.
CapDiverse_AtThreshold(deduped, max_count) ==
    IF Len(deduped) >= max_count
    THEN LET split == SplitByCategory(deduped, {})
         IN SubSeq(split.diverse \o split.remaining, 1, max_count)
    ELSE deduped

\* Faulty variant: the slice is [:-1], dropping one signal whatever max_count is.
CapDiverse_DropsOne(deduped, max_count) ==
    IF Len(deduped) > max_count
    THEN LET split == SplitByCategory(deduped, {})
         IN SubSeq(split.diverse \o split.remaining, 1, Len(deduped) - 1)
    ELSE deduped

\* unique = (diverse + remaining)[:max_count] when there are too many, else deduped
CapDiverse(deduped, max_count) ==
    IF Len(deduped) > max_count
    THEN LET split == SplitByCategory(deduped, {})
         IN SubSeq(split.diverse \o split.remaining, 1, max_count)
    ELSE deduped

\* the draft loop's effect on stats, for n signals
RECURSIVE DraftLoop(_, _, _)
DraftLoop(stats, n, outcomes) ==
    IF n = 0 THEN stats
    ELSE LET before == DraftLoop(stats, n - 1, outcomes)
             draft == EmailDraft(OutcomeAt(outcomes, n))
         IN IF is_valid(draft) THEN Inc(before, "drafts", 1)
            ELSE IF draft.success /\ ~is_valid(draft) THEN Inc(before, "filtered", 1)
            ELSE Inc(before, "errors", 1)

\* Faulty variant: the skip also records an empty scan.
SkipCompany_Records(f, stats, log, target, scan_type, now) ==
    [file |-> record_scan(f, target.domain, target.company, <<>>, scan_type, now).file,
     stats |-> Inc(stats, "skipped", 1), log |-> log, raised |-> FALSE]

\* stats["skipped"] += 1; continue
SkipCompany(f, stats, log, target, scan_type, now) ==
    [file |-> f, stats |-> Inc(stats, "skipped", 1), log |-> log, raised |-> FALSE]

\* Faulty variant: an empty scan is not recorded.
RecordOutcome_OnlySignals(f, stats, log, target, signal_dicts, scan_type, dry_run, now) ==
    IF dry_run \/ signal_dicts = <<>>
    THEN [file |-> f, stats |-> stats, log |-> log, raised |-> FALSE]
    ELSE LET r == record_scan(f, target.domain, target.company, signal_dicts, scan_type, now)
         IN [file |-> r.file, stats |-> stats,
             log |-> [log EXCEPT !.records =
                         Append(@, [domain |-> target.domain, scan_type |-> scan_type,
                                    signals |-> signal_dicts])],
             raised |-> r.raised]

\* Faulty variant: the scan is recorded in a dry run too.
RecordOutcome_IgnoresDryRun(f, stats, log, target, signal_dicts, scan_type, dry_run, now) ==
    LET r == record_scan(f, target.domain, target.company, signal_dicts, scan_type, now)
    IN [file |-> r.file, stats |-> stats,
        log |-> [log EXCEPT !.records =
                    Append(@, [domain |-> target.domain, scan_type |-> scan_type,
                               signals |-> signal_dicts])],
        raised |-> r.raised]

\* if not dry_run: record_scan(domain, company, signal_dicts, db, scan_type=...)
RecordOutcome(f, stats, log, target, signal_dicts, scan_type, dry_run, now) ==
    IF dry_run
    THEN [file |-> f, stats |-> stats, log |-> log, raised |-> FALSE]
    ELSE LET r == record_scan(f, target.domain, target.company, signal_dicts, scan_type, now)
         IN [file |-> r.file, stats |-> stats,
             log |-> [log EXCEPT !.records =
                         Append(@, [domain |-> target.domain, scan_type |-> scan_type,
                                    signals |-> signal_dicts])],
             raised |-> r.raised]

\* one iteration of run_hiring_pipeline's loop
HiringCompany(f, stats, log, target, dry_run, now, page, outcomes) ==
    IF target.careers_url = ""
    THEN SkipCompany(f, stats, log, target, "hiring", now)
    ELSE
    LET gate == should_scan(f, target.domain, "hiring", now)
        asked == [log EXCEPT !.consulted = TRUE, !.eligible = gate.result]
        fetched == [asked EXCEPT !.fetches = 1, !.found = page.signals]
    IN IF gate.raised
       THEN [file |-> f, stats |-> stats, log |-> asked, raised |-> TRUE]
       ELSE IF ~gate.result
       THEN SkipCompany(f, stats, asked, target, "hiring", now)
       ELSE IF ~page.success
       THEN RecordOutcome(f, Inc(stats, "errors", 1), fetched, target, <<>>,
                          "hiring", dry_run, now)
       ELSE IF page.signals = <<>>
       THEN RecordOutcome(f, Inc(stats, "scanned", 1), fetched, target, <<>>,
                          "hiring", dry_run, now)
       ELSE
       LET unique_signals == DedupBy(page.signals, "keyword", {})
           n == Len(unique_signals)
           counted == Inc(Inc(stats, "scanned", 1), "signals", n)
           signal_dicts == [k \in 1..n |-> HiringDict(unique_signals[k].keyword,
                                                     unique_signals[k].matched_text)]
       IN RecordOutcome(f,
                        IF dry_run THEN counted ELSE DraftLoop(counted, n, outcomes),
                        IF dry_run THEN fetched
                        ELSE [fetched EXCEPT
                                 !.outcomes = outcomes,
                                 !.drafted = [k \in 1..n |-> unique_signals[k].matched_text]],
                        target, signal_dicts, "hiring", dry_run, now)

\* one iteration of run_prospect_pipeline's loop
ProspectCompany(f, stats, log, target, dry_run, has_brave, now, brave, news, outcomes) ==
    LET gate == should_scan(f, target.domain, "prospect", now)
        asked == [log EXCEPT !.consulted = TRUE, !.eligible = gate.result]
        brave_result == prospect_company(has_brave, brave)
        from_brave == IF has_brave /\ brave_result.success THEN brave_result.signals ELSE <<>>
        from_news == IF target.news_url # "" /\ news.success THEN news.signals ELSE <<>>
        all_signals == from_brave \o from_news
        fetched == [asked EXCEPT
                       !.queries = IF has_brave THEN Len(PROSPECT_CATEGORIES) ELSE 0,
                       !.fetches = IF target.news_url # "" THEN 1 ELSE 0,
                       !.found = all_signals]
    IN IF gate.raised
       THEN [file |-> f, stats |-> stats, log |-> asked, raised |-> TRUE]
       ELSE IF ~gate.result
       THEN SkipCompany(f, stats, asked, target, "prospect", now)
       ELSE IF ~has_brave /\ target.news_url = ""
       THEN RecordOutcome(f, Inc(stats, "errors", 1), fetched, target, <<>>,
                          "prospect", dry_run, now)
       ELSE IF all_signals = <<>>
       THEN RecordOutcome(f, Inc(stats, "scanned", 1), fetched, target, <<>>,
                          "prospect", dry_run, now)
       ELSE
       LET deduped == DedupBy(all_signals, "headline", {})
           unique == CapDiverse(deduped, MAX_PROSPECT_SIGNALS_PER_COMPANY)
           n == Len(unique)
           counted == Inc(Inc(stats, "scanned", 1), "signals", n)
           signal_dicts == [k \in 1..n |-> ProspectDict(unique[k].category,
                                                       unique[k].headline,
                                                       unique[k].snippet)]
       IN RecordOutcome(f,
                        IF dry_run THEN counted ELSE DraftLoop(counted, n, outcomes),
                        IF dry_run THEN fetched
                        ELSE [fetched EXCEPT
                                 !.outcomes = outcomes,
                                 !.drafted = [k \in 1..n |-> unique[k].headline]],
                        target, signal_dicts, "prospect", dry_run, now)

\* run_pipeline calls run_hiring_pipeline or run_prospect_pipeline; the prospect
\* pass needs a search key or some news_url
StartPass ==
    /\ pass.kind = "idle"
    /\ pass.started < MaxPasses
    /\ \E kind \in ScanTypes, dry_run \in BOOLEAN, has_brave \in BOOLEAN :
        /\ kind = "prospect" =>
               (has_brave \/ \E k \in 1..Len(Targets) : Targets[k].news_url # "")
        /\ pass' = [kind |-> kind, dry_run |-> dry_run,
                    has_brave |-> (kind = "prospect" /\ has_brave),
                    i |-> 1, stats |-> Stats0, started |-> pass.started + 1]
    /\ turn' = NoLog
    /\ UNCHANGED <<file, clock, calls, ret, lastRec, procs, fn>>

\* The pass moves on to the next company, or stops on an exception.
Advance(done) ==
    /\ file' = done.file
    /\ turn' = done.log
    /\ pass' = IF done.raised
               THEN [pass EXCEPT !.kind = "aborted", !.stats = done.stats]
               ELSE [pass EXCEPT !.i = @ + 1, !.stats = done.stats]
    /\ UNCHANGED <<clock, calls, ret, lastRec, procs, fn>>

HiringTurn ==
    /\ pass.kind = "hiring"
    /\ pass.i <= Len(Targets)
    /\ \E page \in HiringPages, outcomes \in DraftOutcomes :
        Advance(HiringCompany(file, pass.stats,
                              [NoLog EXCEPT !.idx = pass.i, !.scan_type = "hiring"],
                              Targets[pass.i], pass.dry_run, clock, page, outcomes))

ProspectTurn ==
    /\ pass.kind = "prospect"
    /\ pass.i <= Len(Targets)
    /\ \E brave \in BraveSignals, news \in NewsPages(Targets[pass.i].news_url),
          outcomes \in DraftOutcomes :
        Advance(ProspectCompany(file, pass.stats,
                                [NoLog EXCEPT !.idx = pass.i, !.scan_type = "prospect"],
                                Targets[pass.i], pass.dry_run, pass.has_brave, clock,
                                brave, news, outcomes))

\* return stats
EndPass ==
    /\ pass.kind \in ScanTypes
    /\ pass.i > Len(Targets)
    /\ pass' = [pass EXCEPT !.kind = "idle"]
    /\ UNCHANGED <<file, clock, calls, ret, lastRec, procs, turn, fn>>

\* Hours go by between one run and the next; within a pass the clock is taken
\* to stand still (a pass sleeps two seconds between companies).
BetweenPasses ==
    /\ pass.kind = "idle"
    /\ clock + TickHours <= MaxClock
    /\ clock' = clock + TickHours
    /\ UNCHANGED <<file, calls, ret, lastRec, procs, pipe, fn>>

NextPipe == StartPass \/ HiringTurn \/ ProspectTurn \/ EndPass \/ BetweenPasses

SpecPipe == Init /\ [][NextPipe]_vars

----------------------------------------------------------------------------
(* A pass whose process dies while it saves the store *)

\* The run is killed inside record_scan's _save_db, after open(db_path, "w") has
\* truncated the file: the pass is over and db.json holds zero bytes.
PassKilledInSave ==
    /\ pass.kind \in ScanTypes
    /\ ~pass.dry_run
    /\ pass.i <= Len(Targets)
    /\ ~_load_db(file).raised
    /\ file' = EmptyFile
    /\ pass' = [pass EXCEPT !.kind = "idle"]
    /\ turn' = NoLog
    /\ UNCHANGED <<clock, calls, ret, lastRec, procs, fn>>

NextPipeFault == NextPipe \/ PassKilledInSave

SpecPipeFault == Init /\ [][NextPipeFault]_vars

----------------------------------------------------------------------------
(* main.py: deduplication and the category-diverse cap, on drawn signal pools *)

BoundedSeq(S, n) == UNION {[1..k -> S] : k \in 0..n}

\* Prospect signals of two categories; the headlines "X" and "x" differ in case only.
PoolCategories == {"new_model", "regulatory"}
PoolHeadlines == {"X", "x", "Y", "Z"}
ProspectPool ==
    {ProspectSignal(c, h, h, "https://news.example/") : c \in PoolCategories, h \in PoolHeadlines}

\* analysis.signals: keyword and line text drawn, line numbers in page order.
PoolKeywords == {"VP", "AI"}
PoolLines == {"VP of AI", "Head of AI"}
HiringPools(max_len) ==
    {[k \in 1..Len(q) |-> Signal(q[k][1], q[k][2], k)] :
        q \in BoundedSeq(PoolKeywords \X PoolLines, max_len)}

\* The pools of up to max_len signals and the caps up to max_cap the two
\* reductions are applied to.  The hiring pass has no cap: max_count is not read
\* for it.
ReduceInputs(max_len, max_cap) ==
    {[op |-> "input", kind |-> "prospect", signals |-> q, max_count |-> m,
      deduped |-> <<>>, out |-> <<>>, first |-> <<>>] :
        q \in BoundedSeq(ProspectPool, max_len), m \in 0..max_cap}
    \cup
    {[op |-> "input", kind |-> "hiring", signals |-> q, max_count |-> 0,
      deduped |-> <<>>, out |-> <<>>, first |-> <<>>] : q \in HiringPools(max_len)}

InitReduce ==
    /\ file = MissingFile
    /\ clock = 0
    /\ calls = 0
    /\ ret = NoCall
    /\ lastRec = [k \in Domains \X ScanTypes |-> <<>>]
    /\ procs = [p \in Procs |-> Idle]
    /\ pass = NoPass
    /\ turn = NoLog
    /\ fn \in ReduceInputs(MaxSignals, MaxCount)

\* run_hiring_pipeline: unique_signals
ReduceHiring ==
    /\ fn.op = "input"
    /\ fn.kind = "hiring"
    /\ LET unique_signals == DedupBy(fn.signals, "keyword", {})
       IN fn' = [fn EXCEPT !.op = "reduce", !.deduped = unique_signals,
                          !.out = unique_signals]
    /\ UNCHANGED <<file, clock, calls, ret, lastRec, procs, pipe>>

\* run_prospect_pipeline: deduped, then unique
ReduceProspect ==
    /\ fn.op = "input"
    /\ fn.kind = "prospect"
    /\ LET deduped == DedupBy(fn.signals, "headline", {})
           unique == CapDiverse(deduped, fn.max_count)
       IN fn' = [fn EXCEPT !.op = "reduce", !.deduped = deduped, !.out = unique]
    /\ UNCHANGED <<file, clock, calls, ret, lastRec, procs, pipe>>

\* The output of one reduction is handed to the same code as its next input.
FeedBack ==
    /\ fn.op = "reduce"
    /\ fn.first = <<>>
    /\ fn' = [fn EXCEPT !.op = "input", !.signals = fn.out,
                        !.deduped = <<>>, !.out = <<>>,
                        !.first = <<[signals |-> fn.signals, deduped |-> fn.deduped,
                                     out |-> fn.out]>>]
    /\ UNCHANGED <<file, clock, calls, ret, lastRec, procs, pipe>>

NextReduce == ReduceHiring \/ ReduceProspect \/ FeedBack

SpecReduce == InitReduce /\ [][NextReduce]_vars

----------------------------------------------------------------------------
(* signalsdr/analyzer.py, with the keyword lists of signalsdr/config.py *)

\* A text is the sequence of its lines, as text.splitlines() returns them; a
\* line is a string, and one character of it is SubSeq(line, i, i).

SIGNAL_KEYWORDS ==
    << "VP", "Vice President", "Director", "Head of", "Chief", "CISO", "CTO", "CIO",
       "Security", "AI", "Machine Learning", "Series B", "Series C" >>

EXCLUDE_KEYWORDS ==
    << "Intern", "Associate", "Junior", "Entry Level", "Part-time", "Part time",
       "Social Security" >>

LowerChar(c) ==
    CASE c = "A" -> "a"   [] c = "B" -> "b"   [] c = "C" -> "c"   [] c = "D" -> "d"
      [] c = "E" -> "e"   [] c = "F" -> "f"   [] c = "G" -> "g"   [] c = "H" -> "h"
      [] c = "I" -> "i"   [] c = "J" -> "j"   [] c = "K" -> "k"   [] c = "L" -> "l"
      [] c = "M" -> "m"   [] c = "N" -> "n"   [] c = "O" -> "o"   [] c = "P" -> "p"
      [] c = "Q" -> "q"   [] c = "R" -> "r"   [] c = "S" -> "s"   [] c = "T" -> "t"
      [] c = "U" -> "u"   [] c = "V" -> "v"   [] c = "W" -> "w"   [] c = "X" -> "x"
      [] c = "Y" -> "y"   [] c = "Z" -> "z"
      [] OTHER -> c

\* str.lower()
RECURSIVE Lower(_)
Lower(str) ==
    IF Len(str) = 0 THEN ""
    ELSE LowerChar(SubSeq(str, 1, 1)) \o Lower(SubSeq(str, 2, Len(str)))

IsSpace(c) == c \in {" ", "\t"}

RECURSIVE LStrip(_)
LStrip(str) ==
    IF Len(str) = 0 THEN ""
    ELSE IF IsSpace(SubSeq(str, 1, 1)) THEN LStrip(SubSeq(str, 2, Len(str)))
    ELSE str

RECURSIVE RStrip(_)
RStrip(str) ==
    IF Len(str) = 0 THEN ""
    ELSE IF IsSpace(SubSeq(str, Len(str), Len(str))) THEN RStrip(SubSeq(str, 1, Len(str) - 1))
    ELSE str

\* str.strip()
Strip(str) == LStrip(RStrip(str))

\* str[:n]
Slice(str, n) == SubSeq(str, 1, IF Len(str) < n THEN Len(str) ELSE n)

\* sub in str
Contains(str, sub) ==
    \E i \in 1..(Len(str) - Len(sub) + 1) : SubSeq(str, i, i + Len(sub) - 1) = sub

\* Faulty variant: the exclusion keywords are looked for as they are written.
_is_excluded_CaseSensitive(line) ==
    \E k \in 1..Len(EXCLUDE_KEYWORDS) : Contains(line, EXCLUDE_KEYWORDS[k])

\* any(kw.lower() in line_lower for kw in EXCLUDE_KEYWORDS)
_is_excluded(line) ==
    LET line_lower == Lower(line)
    IN \E k \in 1..Len(EXCLUDE_KEYWORDS) : Contains(line_lower, Lower(EXCLUDE_KEYWORDS[k]))

\* re.compile(re.escape(keyword), re.IGNORECASE).search(line)
PatternSearch(keyword, line) == Contains(Lower(line), Lower(keyword))

\* Faulty variant: the keyword loop stops at the first keyword that matches.
RECURSIVE MatchKeywords_FirstOnly(_, _, _)
MatchKeywords_FirstOnly(keywords, line, line_num) ==
    IF keywords = <<>> THEN <<>>
    ELSE IF PatternSearch(Head(keywords), line)
         THEN << Signal(Head(keywords), Slice(Strip(line), 200), line_num) >>
         ELSE MatchKeywords_FirstOnly(Tail(keywords), line, line_num)

\* for keyword in keywords: if pattern.search(line): result.signals.append(..)
RECURSIVE MatchKeywords(_, _, _)
MatchKeywords(keywords, line, line_num) ==
    IF keywords = <<>> THEN <<>>
    ELSE LET later == MatchKeywords(Tail(keywords), line, line_num)
         IN IF PatternSearch(Head(keywords), line)
            THEN << Signal(Head(keywords), Slice(Strip(line), 200), line_num) >> \o later
            ELSE later

\* the body of the loop over the lines
AnalyzeLine(keywords, line, line_num) ==
    IF Strip(line) = "" THEN <<>>
    ELSE IF _is_excluded(line) THEN <<>>
    ELSE MatchKeywords(keywords, line, line_num)

RECURSIVE AnalyzeLines(_, _, _)
AnalyzeLines(keywords, text, line_num) ==
    IF line_num > Len(text) THEN <<>>
    ELSE AnalyzeLine(keywords, text[line_num], line_num)
         \o AnalyzeLines(keywords, text, line_num + 1)

\* The keywords argument: None, or a list.
None == [given |-> FALSE, list |-> <<>>]
KeywordList(list) == [given |-> TRUE, list |-> list]

\* analyze_text: keywords = keywords or SIGNAL_KEYWORDS, then the loop
analyze_text(text, keywords) ==
    LET kws == IF keywords.given /\ keywords.list # <<>> THEN keywords.list
               ELSE SIGNAL_KEYWORDS
    IN [signals |-> AnalyzeLines(kws, text, 1)]

\* AnalysisResult.has_signals
has_signals(result) == Len(result.signals) > 0

\* Lines of a careers page: with and without keywords, excluded, blank.
PageLines ==
    { "Now hiring: VP of Security",
      "Intern wanted",
      "  Head of AI ",
      "vp of ai, internal tools",
      "Plant tours",
      "  ",
      "" }

KeywordArgs ==
    { None, KeywordList(<<>>), KeywordList(<<"VP", "Head of", "AI">>),
      KeywordList(<<"ai", "Tools", "vp">>) }

\* The texts of up to max_len lines, with each keywords argument.
AnalyzeInputs(max_len) ==
    {[op |-> "input", text |-> t, keywords |-> k, signals |-> <<>>] :
        t \in BoundedSeq(PageLines, max_len), k \in KeywordArgs}

InitAnalyze ==
    /\ file = MissingFile
    /\ clock = 0
    /\ calls = 0
    /\ ret = NoCall
    /\ lastRec = [k \in Domains \X ScanTypes |-> <<>>]
    /\ procs = [p \in Procs |-> Idle]
    /\ pass = NoPass
    /\ turn = NoLog
    /\ fn \in AnalyzeInputs(MaxLines)

AnalyzeText ==
    /\ fn.op = "input"
    /\ fn' = [fn EXCEPT !.op = "analyze_text",
                        !.signals = analyze_text(fn.text, fn.keywords).signals]
    /\ UNCHANGED <<file, clock, calls, ret, lastRec, procs, pipe>>

NextAnalyze == AnalyzeText

SpecAnalyze == InitAnalyze /\ [][NextAnalyze]_vars

----------------------------------------------------------------------------
(* signalsdr/prospector.py: the search source *)

\* One item of search_brave's list.
Item(title, description, url) == [title |-> title, description |-> description, url |-> url]

\* search_brave for one category: the items it returns, or the
\* requests.RequestException it raises.
QueryFailed == [raised |-> TRUE, results |-> <<>>]
QueryReturned(results) == [raised |-> FALSE, results |-> results]

\* Faulty variant: a result is the company's own only if its URL starts with
\* the domain.
RECURSIVE MapResults_PrefixMatch(_, _, _)
MapResults_PrefixMatch(cat, domain, results) ==
    IF results = <<>> THEN <<>>
    ELSE LET item == Head(results)
             rest == MapResults_PrefixMatch(cat, domain, Tail(results))
             own == "https://" \o domain
         IN IF Slice(item.url, Len(own)) = own
            THEN rest
            ELSE << ProspectSignal(cat, item.title, Slice(item.description, 300), item.url) >>
                 \o rest

\* for item in results: if domain in item["url"]: continue; signals.append(..)
RECURSIVE MapResults(_, _, _)
MapResults(cat, domain, results) ==
    IF results = <<>> THEN <<>>
    ELSE LET item == Head(results)
             rest == MapResults(cat, domain, Tail(results))
         IN IF Contains(item.url, domain)
            THEN rest
            ELSE << ProspectSignal(cat, item.title, Slice(item.description, 300), item.url) >>
                 \o rest

\* Faulty variant: a query that raises ends the loop over the categories.
RECURSIVE QueryCategories_StopsAtError(_, _, _)
QueryCategories_StopsAtError(cats, domain, responses) ==
    IF cats = <<>> THEN <<>>
    ELSE LET cat == Head(cats)
         IN IF responses[cat].raised THEN <<>>
            ELSE MapResults(cat, domain, responses[cat].results)
                 \o QueryCategories_StopsAtError(Tail(cats), domain, responses)

\* for idx, cat in enumerate(cats): try: results = search_brave(..)
\* except requests.RequestException: continue
RECURSIVE QueryCategories(_, _, _)
QueryCategories(cats, domain, responses) ==
    IF cats = <<>> THEN <<>>
    ELSE LET cat == Head(cats)
             later == QueryCategories(Tail(cats), domain, responses)
         IN IF responses[cat].raised THEN later
            ELSE MapResults(cat, domain, responses[cat].results) \o later

\* prospect_company(company, domain) as the pass calls it: every category, the
\* key from the environment ("" when BRAVE_API_KEY is not set)
ProspectSearch(api_key, domain, responses) ==
    prospect_company(api_key # "", QueryCategories(PROSPECT_CATEGORIES, domain, responses))

----------------------------------------------------------------------------
(* signalsdr/prospector.py: the page-scrape source *)

\* NEWS_PAGE_KEYWORDS.items(), in the order the dict is written
NEWS_PAGE_KEYWORDS ==
    << <<"new model", "new_model">>, <<"new vehicle", "new_model">>,
       <<"new product", "new_model">>, <<"product launch", "new_model">>,
       <<"all-new", "new_model">>, <<"next-generation", "new_model">>,
       <<"unveils", "new_model">>, <<"introduces", "new_model">>,
       <<"autonomous", "new_model">>,
       <<"recall", "service_challenge">>, <<"warranty", "service_challenge">>,
       <<"technician", "service_challenge">>, <<"service network", "service_challenge">>,
       <<"parts supply", "service_challenge">>, <<"service center", "service_challenge">>,
       <<"electric vehicle", "ev_transition">>, <<"electrification", "ev_transition">>,
       <<"battery", "ev_transition">>, <<"EV platform", "ev_transition">>,
       <<"zero emission", "ev_transition">>, <<"hybrid", "ev_transition">>,
       <<"charging", "ev_transition">>,
       <<"regulation", "regulatory">>, <<"compliance", "regulatory">>,
       <<"safety standard", "regulatory">>, <<"emissions", "regulatory">>,
       <<"right to repair", "regulatory">>, <<"NHTSA", "regulatory">> >>

\* The keywords in lower case: re.IGNORECASE compares them so.
KeywordsLowered == [k \in 1..Len(NEWS_PAGE_KEYWORDS) |-> Lower(NEWS_PAGE_KEYWORDS[k][1])]

\* str.split(sep), sep one character
RECURSIVE Split(_, _)
Split(str, sep) ==
    IF \E i \in 1..Len(str) : SubSeq(str, i, i) = sep
    THEN LET i == CHOOSE i \in 1..Len(str) :
                     /\ SubSeq(str, i, i) = sep
                     /\ \A j \in 1..(i - 1) : SubSeq(str, j, j) # sep
         IN << SubSeq(str, 1, i - 1) >> \o Split(SubSeq(str, i + 1, Len(str)), sep)
    ELSE << str >>

\* a comma-separated tag list: two or more segments, none longer than 30
IsTagList(line_stripped) ==
    /\ Contains(line_stripped, ",")
    /\ LET segments == Split(line_stripped, ",")
       IN /\ Len(segments) >= 2
          /\ \A k \in 1..Len(segments) : Len(Strip(segments[k])) <= 30

\* re.search(r"kWh/100\s?km|g/km|CO₂|WLTP|NEDC", line_stripped)
IsDisclaimer(line_stripped) ==
    \/ Contains(line_stripped, "kWh/100km")
    \/ Contains(line_stripped, "kWh/100 km")
    \/ Contains(line_stripped, "kWh/100\tkm")
    \/ Contains(line_stripped, "g/km")
    \/ Contains(line_stripped, "CO₂")
    \/ Contains(line_stripped, "WLTP")
    \/ Contains(line_stripped, "NEDC")

ChromePhrases ==
    << "browse below", "download the right", "cookie", "privacy policy",
       "terms of use", "all rights reserved", "subscribe to" >>

\* any(phrase in lower for phrase in (...))
IsChrome(lower) ==
    \E k \in 1..Len(ChromePhrases) : Contains(lower, ChromePhrases[k])

\* The line passes the length test and the three noise tests.
SurvivesFilters(line_stripped) ==
    /\ Len(line_stripped) >= 25
    /\ ~IsTagList(line_stripped)
    /\ ~IsDisclaimer(line_stripped)
    /\ ~IsChrome(Lower(line_stripped))

NoneFound(seen) == [signals |-> <<>>, seen |-> seen]

\* Faulty variant: the loop goes on after a match, and the last keyword of the
\* table that matches gives the category.
RECURSIVE KeywordLoop_LastMatch(_, _, _, _, _)
KeywordLoop_LastMatch(k, line_stripped, lower, news_url, seen) ==
    IF k > Len(NEWS_PAGE_KEYWORDS) THEN NoneFound(seen)
    ELSE LET later == KeywordLoop_LastMatch(k + 1, line_stripped, lower, news_url, seen)
             headline == Slice(line_stripped, 150)
         IN IF Contains(lower, KeywordsLowered[k])
               /\ headline \notin seen /\ later.signals = <<>>
            THEN [signals |-> << ProspectSignal(NEWS_PAGE_KEYWORDS[k][2], headline,
                                                Slice(line_stripped, 300), news_url) >>,
                  seen |-> seen \cup {headline}]
            ELSE later

\* for keyword, category in NEWS_PAGE_KEYWORDS.items(), from the k-th item on:
\* on a match, continue if the headline was seen, else append and break.
\* lower is line_stripped in lower case, for the re.IGNORECASE search.
RECURSIVE KeywordLoop(_, _, _, _, _)
KeywordLoop(k, line_stripped, lower, news_url, seen) ==
    IF k > Len(NEWS_PAGE_KEYWORDS) THEN NoneFound(seen)
    ELSE IF Contains(lower, KeywordsLowered[k])
    THEN LET headline == Slice(line_stripped, 150)
         IN IF headline \in seen
            THEN KeywordLoop(k + 1, line_stripped, lower, news_url, seen)
            ELSE [signals |-> << ProspectSignal(NEWS_PAGE_KEYWORDS[k][2], headline,
                                                Slice(line_stripped, 300), news_url) >>,
                  seen |-> seen \cup {headline}]
    ELSE KeywordLoop(k + 1, line_stripped, lower, news_url, seen)

\* the body of the loop over result.text.splitlines()
ScrapeLine(line, news_url, seen) ==
    LET line_stripped == Strip(line)
    IN IF ~SurvivesFilters(line_stripped) THEN NoneFound(seen)
       ELSE KeywordLoop(1, line_stripped, Lower(line_stripped), news_url, seen)

RECURSIVE ScrapeLines(_, _, _)
ScrapeLines(lines, news_url, seen) ==
    IF lines = <<>> THEN <<>>
    ELSE LET first == ScrapeLine(Head(lines), news_url, seen)
         IN first.signals \o ScrapeLines(Tail(lines), news_url, first.seen)

\* fetch_page(news_url): it failed, or it returned a text of these lines
FetchFailed == [success |-> FALSE, lines |-> <<>>]
Fetched(lines) == [success |-> TRUE, lines |-> lines]

\* scrape_news_page, given what fetch_page returns
scrape_news_page(news_url, page) ==
    IF ~page.success THEN [success |-> FALSE, signals |-> <<>>]
    ELSE [success |-> TRUE, signals |-> ScrapeLines(page.lines, news_url, {})]

----------------------------------------------------------------------------
(* The page-scrape source on drawn pages *)

\* Lines of a news page: headlines with several keywords, a short line, a tag
\* list, a disclaimer, site chrome, a line without keyword, a headline repeated
\* with other spacing, a headline with a comma.
NewsLines ==
    { "Acme unveils all-new electric vehicle",
      "  Acme unveils all-new electric vehicle  ",
      "NHTSA opens hybrid emissions compliance probe",
      "Battery news",
      "Electrification, Sustainability, Podcast",
      "WLTP combined: battery range up to 400 km",
      "Privacy Policy and charging terms updated",
      "Quarterly results were published on Monday",
      "Recall of 2,000 trucks: Acme expands the service network nationwide" }

NewsUrls == {"https://acme.com/news"}

\* The pages of up to max_len lines, and the failed fetch.
NewsInputs(max_len) ==
    {[op |-> "input", news_url |-> u, page |-> pg, success |-> FALSE, signals |-> <<>>] :
        u \in NewsUrls,
        pg \in {FetchFailed} \cup {Fetched(t) : t \in BoundedSeq(NewsLines, max_len)}}

InitNews ==
    /\ file = MissingFile
    /\ clock = 0
    /\ calls = 0
    /\ ret = NoCall
    /\ lastRec = [k \in Domains \X ScanTypes |-> <<>>]
    /\ procs = [p \in Procs |-> Idle]
    /\ pass = NoPass
    /\ turn = NoLog
    /\ fn \in NewsInputs(MaxLines)

ScrapeNewsPage ==
    /\ fn.op = "input"
    /\ LET r == scrape_news_page(fn.news_url, fn.page)
       IN fn' = [fn EXCEPT !.op = "scrape_news_page",
                          !.success = r.success, !.signals = r.signals]
    /\ UNCHANGED <<file, clock, calls, ret, lastRec, procs, pipe>>

NextNews == ScrapeNewsPage

SpecNews == InitNews /\ [][NextNews]_vars

----------------------------------------------------------------------------
(* run_prospect_pipeline's pool, from both sources, on drawn responses *)

OwnPost == Item("Acme blog post", "From the Acme blog", "https://acme.com/blog/post")
PressStory == Item("Acme recalls trucks", "A recall of trucks", "https://news.example/acme-recall")
MirrorPost == Item("Acme mirror", "A copy of the post", "https://mirror.example/acme.com/post")
UpperCaseHost == Item("Acme in the news", "Press page", "https://www.Acme.com/press")

\* What one category's query can come back with.
Responses ==
    { QueryFailed,
      QueryReturned(<<>>),
      QueryReturned(<<OwnPost, PressStory>>),
      QueryReturned(<<MirrorPost, UpperCaseHost>>) }

CategorySet == {PROSPECT_CATEGORIES[k] : k \in 1..Len(PROSPECT_CATEGORIES)}

\* BRAVE_API_KEY unset or set; a target with or without news_url; the news
\* page not fetched, or fetched with two headlines.
PoolInputs ==
    {[op |-> "input", api_key |-> key, domain |-> "acme.com", responses |-> rs,
      news_url |-> u, page |-> pg,
      search |-> [success |-> FALSE, signals |-> <<>>], pool |-> <<>>] :
        key \in {"", "key"},
        rs \in [CategorySet -> Responses],
        u \in {""} \cup NewsUrls,
        pg \in {FetchFailed,
                Fetched(<< "Acme unveils all-new electric vehicle",
                           "NHTSA opens hybrid emissions compliance probe" >>)}}

InitProspect ==
    /\ file = MissingFile
    /\ clock = 0
    /\ calls = 0
    /\ ret = NoCall
    /\ lastRec = [k \in Domains \X ScanTypes |-> <<>>]
    /\ procs = [p \in Procs |-> Idle]
    /\ pass = NoPass
    /\ turn = NoLog
    /\ fn \in PoolInputs

\* prospect_company called with the key the environment holds
ProspectCompanyCall ==
    /\ fn.op = "input"
    /\ fn' = [fn EXCEPT !.op = "prospect_company",
                        !.search = ProspectSearch(fn.api_key, fn.domain, fn.responses)]
    /\ UNCHANGED <<file, clock, calls, ret, lastRec, procs, pipe>>

\* all_signals: source 1 if has_brave, then source 2 if news_url
CollectSignals ==
    /\ fn.op = "input"
    /\ LET has_brave == fn.api_key # ""
           brave_result == ProspectSearch(fn.api_key, fn.domain, fn.responses)
           news_result == scrape_news_page(fn.news_url, fn.page)
           from_brave == IF has_brave /\ brave_result.success
                         THEN brave_result.signals ELSE <<>>
           from_news == IF fn.news_url # "" /\ news_result.success
                        THEN news_result.signals ELSE <<>>
       IN fn' = [fn EXCEPT !.op = "collect", !.pool = from_brave \o from_news]
    /\ UNCHANGED <<file, clock, calls, ret, lastRec, procs, pipe>>

NextProspect == ProspectCompanyCall \/ CollectSignals

SpecProspect == InitProspect /\ [][NextProspect]_vars

----------------------------------------------------------------------------
(* Properties of the store *)

IsPrefix(s, t) == Len(s) <= Len(t) /\ SubSeq(t, 1, Len(s)) = s

\* The records the store holds for a domain.
RecordsOf(f, d) == {i \in 1..Len(f.companies) : f.companies[i].domain = d}

NeverRecorded(d) == \A t \in ScanTypes : lastRec[<<d, t>>] = <<>>

\* C1: should_scan(domain, scan_type) returns true for a domain that was never
\* recorded, and false when less than the cooldown has elapsed since the last
\* record_scan for the same domain and scan type, whatever signals that call
\* carried and whatever was recorded for other domains in between.
C1_ShouldScanFollowsRecordScan ==
    ret.op = "should_scan" =>
        /\ ~ret.raised
        /\ NeverRecorded(ret.domain) => ret.result
        /\ ( /\ lastRec[<<ret.domain, ret.scan_type>>] # <<>>
             /\ clock - lastRec[<<ret.domain, ret.scan_type>>][1] < RESCAN_COOLDOWN_HOURS )
           => ~ret.result

\* should_scan says no for a domain scanned 12 hours ago, another domain
\* having been recorded since.
C1_Witness ==
    /\ ret.op = "should_scan" /\ ~ret.result
    /\ clock = 12
    /\ lastRec[<<ret.domain, ret.scan_type>>] = <<0>>
    /\ \E d \in Domains \ {ret.domain}, t \in ScanTypes : lastRec[<<d, t>>] = <<12>>

\* C2: the two scan types have independent cooldowns: should_scan for a scan
\* type that was never recorded for the domain is true however often the other
\* type was recorded, and a record_scan for one type leaves the stored timestamp
\* of the other type as it was (absent on a record it creates).
C2_IndependentCooldowns ==
    [][ /\ ( ret'.op = "should_scan" /\ lastRec'[<<ret'.domain, ret'.scan_type>>] = <<>> )
           => ret'.result
        /\ ret'.op = "record_scan" =>
             LET other == IF ret'.scan_type = "hiring" THEN "last_prospect_scan"
                          ELSE "last_scan"
             IN \A i \in 1..Len(file'.companies) :
                    file'.companies[i][other] =
                        IF i <= Len(file.companies) THEN file.companies[i][other]
                        ELSE <<>>
      ]_vars

\* should_scan(d, "prospect") is true while d is cooling down for "hiring".
C2_Witness ==
    /\ ret.op = "should_scan" /\ ret.scan_type = "prospect" /\ ret.result
    /\ calls = 2
    /\ lastRec[<<ret.domain, "prospect">>] = <<>>
    /\ lastRec[<<ret.domain, "hiring">>] = <<clock>>
    /\ RecordsOf(file, ret.domain) # {}

C4_HistoryAppendOnly ==
    [][ \A i \in 1..Len(file.companies) :
            /\ i <= Len(file'.companies)
            /\ file'.companies[i].domain = file.companies[i].domain
            /\ IsPrefix(file.companies[i].signals, file'.companies[i].signals)
      ]_vars

\* A second non-empty scan has been appended to a non-empty history.
C4_Witness ==
    /\ ret.op = "record_scan" /\ ret.signals # <<>>
    /\ \E i \in RecordsOf(file, ret.domain) :
         Len(file.companies[i].signals) > Len(ret.signals)

\* C5: the store holds exactly one record for every domain that was recorded
\* and none for any other; domains that differ only in case are different.
C5_OneRecordPerDomain ==
    /\ \A d \in Domains :
         Cardinality(RecordsOf(file, d)) = IF NeverRecorded(d) THEN 0 ELSE 1
    /\ Len(file.companies) = Cardinality({d \in Domains : ~NeverRecorded(d)})

\* The second record_scan for a domain found the record of the first.
C5_Witness ==
    /\ ret.op = "record_scan" /\ calls = 2
    /\ Len(file.companies) = 1

\* C6: a missing or unparseable store reads as an empty store: should_scan
\* returns true, record_scan saves a store holding just the record of its call,
\* and neither raises.
C6_UnreadableStoreReadsAsEmpty ==
    ( ret.op \in {"should_scan", "record_scan"} /\ ret.read \in {"missing", "empty", "garbled"} )
    =>  /\ ~ret.raised
        /\ ret.op = "should_scan" => ret.result
        /\ ret.op = "record_scan" =>
             /\ file.state = "ok"
             /\ Len(file.companies) = 1
             /\ file.companies[1].domain = ret.domain
             /\ Len(file.companies[1].signals) = Len(ret.signals)

\* The history and the timestamp a document holds for a domain.
HistoryIn(companies, d) ==
    IF FindCompany(companies, d) = 0 THEN <<>>
    ELSE companies[FindCompany(companies, d)].signals

StampIn(companies, d, key) ==
    IF FindCompany(companies, d) = 0 THEN <<>>
    ELSE companies[FindCompany(companies, d)][key]

\* p's and q's calls both loaded the store before either began to save, their
\* saves did not overlap, and p's save came first.
LostUpdateRace(p, q) ==
    /\ p # q
    /\ procs[p].pc = "done" /\ procs[q].pc = "done"
    /\ procs[p].raced /\ procs[q].raced
    /\ ~procs[p].overlapped /\ ~procs[q].overlapped
    /\ procs[p].order < procs[q].order

\* C7: when two record_scan calls both load before either saves, both return
\* normally and the store is left as the later save wrote it: what the earlier
\* call added (its new record, its timestamp, its history entries) is not there.
C7_LostUpdate ==
    \A p, q \in Procs :
        LostUpdateRace(p, q) =>
            LET snap == procs[p].snapshot
                d == procs[p].domain
                key == IF procs[p].scan_type = "hiring" THEN "last_scan"
                       ELSE "last_prospect_scan"
            IN /\ procs[q].snapshot = snap
               /\ file.state = "ok"
               /\ d # procs[q].domain =>
                    /\ Cardinality(RecordsOf(file, d)) =
                           Cardinality(RecordsOf(DocFile(snap), d))
                    /\ HistoryIn(file.companies, d) = HistoryIn(snap, d)
                    /\ StampIn(file.companies, d, key) = StampIn(snap, d, key)
               /\ d = procs[q].domain =>
                    /\ Len(HistoryIn(file.companies, d)) =
                           Len(HistoryIn(snap, d)) + Len(procs[q].signals)
                    /\ procs[p].scan_type # procs[q].scan_type =>
                           StampIn(file.companies, d, key) = StampIn(snap, d, key)

\* The earlier call recorded signals for a new domain; the store has no record
\* of that domain.
C7_Witness ==
    \E p, q \in Procs :
        /\ LostUpdateRace(p, q)
        /\ procs[p].signals # <<>>
        /\ procs[p].domain # procs[q].domain
        /\ RecordsOf(DocFile(procs[p].snapshot), procs[p].domain) = {}
        /\ RecordsOf(file, procs[p].domain) = {}

\* C8: a call that reads the store while another call is saving it sees a
\* whole document (the one before the save or the one after), never an empty
\* or partly written file.
C8_ReadsSeeWholeDocument ==
    /\ ret.op = "should_scan" => ret.read \in {"missing", "ok"}
    /\ \A p \in Procs : procs[p].pc # "raised"

----------------------------------------------------------------------------
(* Properties of a pipeline pass *)

\* The dedup key of the scan type, in a found signal and in a recorded dict.
KeyOf(scan_type) == IF scan_type = "hiring" THEN "keyword" ELSE "headline"

KeysOf(signals, key) == {signals[k][key] : k \in 1..Len(signals)}

\* The company handled last was recorded by exactly one record_scan call, for
\* its domain and the pass's scan type, carrying the signals that survived:
\* none when none was found, otherwise found signals with distinct keys, all of
\* them unless the cap cut them down.
RecordedOnce ==
    /\ Len(turn.records) = 1
    /\ LET call == turn.records[1]
           key == KeyOf(turn.scan_type)
       IN /\ call.domain = Targets[turn.idx].domain
          /\ call.scan_type = turn.scan_type
          /\ (call.signals = <<>>) <=> (turn.found = <<>>)
          /\ KeysOf(call.signals, key) \subseteq KeysOf(turn.found, key)
          /\ Cardinality(KeysOf(call.signals, key)) = Len(call.signals)
          /\ \/ KeysOf(call.signals, key) = KeysOf(turn.found, key)
             \/ /\ turn.scan_type = "prospect"
                /\ Len(call.signals) = MAX_PROSPECT_SIGNALS_PER_COMPANY
          /\ FindCompany(file.companies, call.domain) # 0
          /\ file.companies[FindCompany(file.companies, call.domain)].status =
                 IF turn.found = <<>> THEN "no_signal" ELSE "signal_found"

\* C9, as first stated: in every pass, a company that is eligible at its turn is
\* recorded by exactly one record_scan call carrying the surviving signals.
C9_EligibleCompanyRecordedOnce ==
    (turn.idx # 0 /\ turn.consulted /\ turn.eligible) => RecordedOnce

\* C9, restricted to passes that record: in a pass that is not a dry run, a company for which
\* should_scan was consulted and returned true is recorded by exactly one
\* record_scan call carrying the surviving signals, whatever became of the
\* draft requests.
C9_EligibleCompanyRecordedOnceUnlessDryRun ==
    (turn.idx # 0 /\ turn.consulted /\ turn.eligible /\ ~pass.dry_run) => RecordedOnce

\* Every draft request of an eligible company failed; its scan is recorded.
C9_Witness ==
    /\ turn.idx # 0 /\ turn.eligible /\ ~pass.dry_run
    /\ turn.outcomes = "failed"
    /\ Len(turn.drafted) = 2
    /\ pass.stats.errors = 2
    /\ Len(turn.records) = 1

\* C10: when should_scan is false for the company whose turn it is, the turn
\* fetches no page, issues no query, requests no draft, does not call
\* record_scan, leaves the store as it was and adds one to skipped.
C10_SkipDoesNothing ==
    [][ ( /\ pass.kind \in ScanTypes
          /\ pass.i <= Len(Targets)
          /\ pass'.i = pass.i + 1 )
        => LET target == Targets[pass.i]
               consulted == pass.kind = "prospect" \/ target.careers_url # ""
               verdict == should_scan(file, target.domain, pass.kind, clock)
           IN ( consulted /\ ~verdict.raised /\ ~verdict.result )
              => /\ turn'.idx = pass.i
                 /\ turn'.consulted /\ ~turn'.eligible
                 /\ turn'.fetches = 0 /\ turn'.queries = 0
                 /\ turn'.drafted = <<>> /\ turn'.records = <<>>
                 /\ file' = file
                 /\ pass'.stats = [pass.stats EXCEPT !.skipped = @ + 1]
      ]_vars

\* The third target shares the first one's domain and is skipped in the same
\* prospect pass.
C10_Witness ==
    /\ turn.idx = 3 /\ turn.scan_type = "prospect"
    /\ turn.consulted /\ ~turn.eligible
    /\ pass.stats.skipped = 1
    /\ file.state = "ok"

\* C11: a failure while one company is processed (failed fetch, failed query,
\* failed draft, bad page text, unreadable store) never ends the pass: a pass
\* stops on an exception only if no company was left after the one at hand.
C11_FailureNeverEndsPass ==
    pass.kind = "aborted" => pass.i = Len(Targets)

----------------------------------------------------------------------------
(* Properties of deduplication and capping *)

DedupKey(kind) == IF kind = "hiring" THEN "keyword" ELSE "headline"

\* The positions of q that hold the first signal with their value of key.
FirstOfKey(q, key) == {i \in 1..Len(q) : \A j \in 1..(i - 1) : q[j][key] # q[i][key]}

\* The subsequence of q at the positions I.
Pick(q, I) ==
    [k \in 1..Cardinality(I) |-> q[CHOOSE i \in I : Cardinality({j \in I : j <= i}) = k]]

\* Where the signal x stands in q (its first occurrence).
PosIn(q, x) == CHOOSE i \in 1..Len(q) : q[i] = x /\ \A j \in 1..(i - 1) : q[j] # x

CategoriesOf(q) == {q[i].category : i \in 1..Len(q)}

MinOf(a, b) == IF a <= b THEN a ELSE b

CapApplies == fn.op = "reduce" /\ fn.kind = "prospect" /\ Len(fn.deduped) > fn.max_count

\* C12: deduplication keeps, for each distinct key (keyword for hiring signals,
\* headline for prospect signals, compared as exact strings), the first signal
\* in input order with that key and drops the later ones: no two signals of the
\* result share a key, every key of the input is in the result, and the result
\* is the subsequence of the input at the first occurrences.
C12_DedupKeepsFirstOfEachKey ==
    fn.op = "reduce" =>
        LET key == DedupKey(fn.kind)
            q == fn.signals
            d == fn.deduped
        IN /\ \A a, b \in 1..Len(d) : a # b => d[a][key] # d[b][key]
           /\ {d[a][key] : a \in 1..Len(d)} = {q[i][key] : i \in 1..Len(q)}
           /\ d = Pick(q, FirstOfKey(q, key))

\* Four prospect signals reduced to the two with headlines "X" and "x", a
\* dropped signal differing from the kept one with its headline.
C12_Witness ==
    /\ fn.op = "reduce" /\ fn.kind = "prospect" /\ fn.first = <<>>
    /\ Len(fn.signals) = 4 /\ Len(fn.deduped) = 2
    /\ fn.deduped[1].headline = "X" /\ fn.deduped[2].headline = "x"
    /\ \E j \in 2..4 : /\ fn.signals[j].headline = "X"
                        /\ fn.signals[j].category # fn.deduped[1].category

C14_CapIsPrefixOfDiverseThenRemaining ==
    CapApplies =>
        LET d == fn.deduped
            F == FirstOfKey(d, "category")
            diverse == Pick(d, F)
            remaining == Pick(d, (1..Len(d)) \ F)
        IN /\ fn.out = SubSeq(diverse \o remaining, 1, fn.max_count)
           /\ Len(fn.out) = fn.max_count

\* A cap of three on four signals whose output ends with a signal that is not
\* the first of its category and differs from the first three of the input.
C14_Witness ==
    /\ CapApplies
    /\ fn.max_count = 3 /\ Len(fn.deduped) = 4
    /\ fn.out # SubSeq(fn.deduped, 1, 3)
    /\ \E a \in 1..2 : fn.out[a].category = fn.out[3].category

\* C15: when the deduplicated count is at most max_count (equal included), the
\* output is the deduplicated input, same elements in the same order.
C15_NoCapAtOrBelowThreshold ==
    ( fn.op = "reduce" /\ fn.kind = "prospect" /\ Len(fn.deduped) <= fn.max_count )
        => fn.out = fn.deduped

\* Exactly max_count signals, two of one category before one of another, come
\* out as they went in.
C15_Witness ==
    /\ fn.op = "reduce" /\ fn.kind = "prospect"
    /\ fn.max_count = 3 /\ Len(fn.deduped) = 3
    /\ fn.deduped[1].category = fn.deduped[2].category
    /\ fn.deduped[2].category # fn.deduped[3].category
    /\ fn.out = fn.deduped

\* C16, as first stated: any two signals of reduce's output stand in the output
\* in the order they stand in the input.
C16_ReduceIsStable ==
    fn.op = "reduce" =>
        \A a, b \in 1..Len(fn.out) :
            a < b => PosIn(fn.signals, fn.out[a]) < PosIn(fn.signals, fn.out[b])

\* C16, group by group: without capping any two signals of the output keep
\* their input order; with capping they keep it when both are the first of
\* their category or both are not, and every first of a category stands before
\* every signal that is not.
C16_ReduceKeepsOrderWithinGroups ==
    fn.op = "reduce" =>
        LET d == fn.deduped
            F == FirstOfKey(d, "category")
        IN \A a, b \in 1..Len(fn.out) :
              a < b =>
                LET pa == PosIn(fn.signals, fn.out[a])
                    pb == PosIn(fn.signals, fn.out[b])
                    fa == PosIn(d, fn.out[a]) \in F
                    fb == PosIn(d, fn.out[b]) \in F
                IN /\ ~CapApplies => pa < pb
                   /\ CapApplies => /\ (fa <=> fb) => pa < pb
                                    /\ fa \/ ~fb

\* A capped output in which a signal stands before one that preceded it in the
\* input.
C16_Witness ==
    /\ CapApplies
    /\ \E a, b \in 1..Len(fn.out) :
          a < b /\ PosIn(fn.signals, fn.out[a]) > PosIn(fn.signals, fn.out[b])

\* C17: reduce applied to its own output with the same max_count returns that
\* output.
C17_ReduceIdempotent ==
    ( fn.op = "reduce" /\ fn.first # <<>> ) => fn.out = fn.signals

\* The second reduction of a pool whose first reduction dropped a duplicate
\* and capped with a reordering.
C17_Witness ==
    /\ fn.op = "reduce" /\ fn.kind = "prospect" /\ fn.first # <<>>
    /\ Len(fn.first[1].deduped) < Len(fn.first[1].signals)
    /\ Len(fn.first[1].deduped) > fn.max_count
    /\ fn.first[1].out # SubSeq(fn.first[1].deduped, 1, fn.max_count)
    /\ fn.out = fn.first[1].out

----------------------------------------------------------------------------
(* Properties of the analyzer *)

Analyzed == fn.op = "analyze_text"

\* str.lower() of each exclusion keyword
LoweredExclusions == [k \in 1..Len(EXCLUDE_KEYWORDS) |-> Lower(EXCLUDE_KEYWORDS[k])]

\* The line, given in lower case, holds an exclusion keyword.
HoldsExclusion(lowered) ==
    \E k \in 1..Len(LoweredExclusions) : Contains(lowered, LoweredExclusions[k])

\* The line, given in lower case, holds the keyword, letter case aside.
Occurs(keyword, lowered) == Contains(lowered, Lower(keyword))

Blank(line) == \A i \in 1..Len(line) : IsSpace(SubSeq(line, i, i))

\* C18: no signal is emitted whose line_number designates a line that holds an
\* exclusion keyword as a case-insensitive substring, even when the line also
\* holds inclusion keywords.
C18_NoSignalFromExcludedLine ==
    Analyzed =>
        \A a \in 1..Len(fn.signals) :
            /\ fn.signals[a].line_number \in 1..Len(fn.text)
            /\ ~HoldsExclusion(Lower(fn.text[fn.signals[a].line_number]))

\* A text whose line "vp of ai, internal tools" holds the keywords "vp" and "ai"
\* and the exclusion "Intern" in another case, analyzed with signals from
\* another line only.
C18_Witness ==
    /\ Analyzed
    /\ Len(fn.text) = 3
    /\ fn.text[2] = "vp of ai, internal tools"
    /\ fn.keywords = KeywordList(<<"ai", "Tools", "vp">>)
    /\ Len(fn.signals) = 1
    /\ fn.signals[1] = Signal("ai", "Head of AI", 3)

\* C19: given a keyword list (or none, for SIGNAL_KEYWORDS), every line that is
\* neither blank nor excluded yields exactly one signal per keyword of the list
\* that occurs in it (case-insensitive literal substring) and none for the
\* others; no other line yields any; the signals are ordered by increasing
\* 1-indexed line number and within a line by the list's order.  The empty
\* list is the subject of C20.
C19_OneSignalPerKeywordPerLine ==
    ( Analyzed /\ fn.keywords # KeywordList(<<>>) ) =>
        LET kws == IF fn.keywords.given THEN fn.keywords.list ELSE SIGNAL_KEYWORDS
            sig == fn.signals
            KeywordIndex(a) == CHOOSE k \in 1..Len(kws) : kws[k] = sig[a].keyword
        IN /\ \A a \in 1..Len(sig) :
                 /\ sig[a].line_number \in 1..Len(fn.text)
                 /\ \E k \in 1..Len(kws) : kws[k] = sig[a].keyword
           /\ \A i \in 1..Len(fn.text) :
                 LET lowered == Lower(fn.text[i])
                     emits == ~Blank(fn.text[i]) /\ ~HoldsExclusion(lowered)
                 IN \A k \in 1..Len(kws) :
                       Cardinality({a \in 1..Len(sig) :
                                       sig[a].line_number = i /\ sig[a].keyword = kws[k]})
                         = IF emits /\ Occurs(kws[k], lowered) THEN 1 ELSE 0
           /\ \A a, b \in 1..Len(sig) :
                 a < b => \/ sig[a].line_number < sig[b].line_number
                          \/ /\ sig[a].line_number = sig[b].line_number
                             /\ KeywordIndex(a) < KeywordIndex(b)

\* "Now hiring: VP of Security", "Intern wanted", "  Head of AI " with the
\* keywords VP, Head of, AI: one signal from line 1, none from line 2, two from
\* line 3 in the list's order.
C19_Witness ==
    /\ Analyzed
    /\ fn.text = << "Now hiring: VP of Security", "Intern wanted", "  Head of AI " >>
    /\ fn.keywords = KeywordList(<<"VP", "Head of", "AI">>)
    /\ fn.signals = << Signal("VP", "Now hiring: VP of Security", 1),
                       Signal("Head of", "Head of AI", 3),
                       Signal("AI", "Head of AI", 3) >>

\* C20: the extractor called with an empty keyword list yields a result with
\* no signals (has_signals false), for every text.
C20_EmptyKeywordListYieldsNothing ==
    ( Analyzed /\ fn.keywords = KeywordList(<<>>) ) => ~has_signals([signals |-> fn.signals])

----------------------------------------------------------------------------
(* Properties of the record a call leaves *)

\* The history entry made for one signal dict of the given scan type.
EntryFor(e, s, scan_type) ==
    IF scan_type = "hiring"
    THEN e.type = <<"hiring">> /\ e.details[Len(e.details)] = s.matched_text
    ELSE e.type = <<"prospect_", s.category>> /\ e.details[Len(e.details)] = s.headline

\* C24: after every record_scan call the record's status is signal_found
\* exactly when the call's signals list was non-empty and no_signal otherwise,
\* whatever the scan type and whatever earlier calls left.
C24_StatusFollowsLastCall ==
    ( ret.op = "record_scan" /\ ~ret.raised ) =>
        /\ RecordsOf(file, ret.domain) # {}
        /\ \A i \in RecordsOf(file, ret.domain) :
              file.companies[i].status =
                  IF Len(ret.signals) > 0 THEN "signal_found" ELSE "no_signal"

\* An empty prospect scan has set no_signal on a record whose history holds
\* the signals of a hiring scan.
C24_Witness ==
    /\ ret.op = "record_scan" /\ ret.scan_type = "prospect" /\ ret.signals = <<>>
    /\ lastRec[<<ret.domain, "hiring">>] # <<>>
    /\ \E i \in RecordsOf(file, ret.domain) :
          /\ file.companies[i].status = "no_signal"
          /\ Len(file.companies[i].signals) = 2
          /\ file.companies[i].signals[1].type = <<"hiring">>

\* C25: each record_scan call lengthens the record's history by exactly the
\* number of signals passed (by none for an empty list), one entry per signal
\* in signal order, whatever the history already holds; the history length
\* after n calls is therefore the sum of the n signal counts.
C25_HistoryGrowsBySignalCount ==
    [][ ( calls' = calls + 1 /\ ~ret'.raised ) =>
          LET old == HistoryIn(file.companies, ret'.domain)
              new == HistoryIn(file'.companies, ret'.domain)
              sigs == ret'.signals
          IN /\ Len(new) = Len(old) + Len(sigs)
             /\ IsPrefix(old, new)
             /\ \A k \in 1..Len(sigs) :
                   EntryFor(new[Len(old) + k], sigs[k], ret'.scan_type)
      ]_vars

\* Two calls with the same two signals have left a history of four entries,
\* the last two repeating the first two.
C25_Witness ==
    /\ ret.op = "record_scan" /\ calls = 2 /\ Len(ret.signals) = 2
    /\ \E i \in RecordsOf(file, ret.domain) :
          LET h == file.companies[i].signals
          IN Len(h) = 4 /\ h[3] = h[1] /\ h[4] = h[2]

\* C26: record_scan(domain, ...) changes the record of that domain only: every
\* other record is as it was, the record of the domain keeps its id, name and
\* domain, and at most one record is added, for the domain; should_scan leaves
\* the store as it is.
C26_RecordScanFrame ==
    [][ /\ ret'.op = "should_scan" => file' = file
        /\ calls' = calls + 1 =>
              LET old == file.companies
                  new == file'.companies
              IN /\ Len(new) \in {Len(old), Len(old) + 1}
                 /\ Len(new) = Len(old) + 1 =>
                        /\ new[Len(new)].domain = ret'.domain
                        /\ RecordsOf(file, ret'.domain) = {}
                 /\ \A i \in 1..Len(old) :
                        IF old[i].domain # ret'.domain
                        THEN new[i] = old[i]
                        ELSE /\ new[i].id = old[i].id
                             /\ new[i].name = old[i].name
                             /\ new[i].domain = old[i].domain
      ]_vars

\* The store holds two records; the second call recorded signals for the
\* second, and the first still is what the first call made it.
C26_Witness ==
    /\ ret.op = "record_scan" /\ calls = 2 /\ ret.signals # <<>>
    /\ Len(file.companies) = 2
    /\ file.companies[2].domain = ret.domain
    /\ file.companies[1].domain # ret.domain
    /\ file.companies[1].status = "signal_found"
    /\ file.companies[1].id = 1 /\ file.companies[2].id = 2

----------------------------------------------------------------------------
(* Properties of a dry run *)

\* C27: no step of a dry-run pass calls record_scan or requests a draft: the
\* store after the step is the store before it, and every company that was
\* eligible before the step is eligible after it.
C27_DryRunLeavesStoreAlone ==
    [][ ( pass.kind \in ScanTypes /\ pass.dry_run ) =>
          /\ file' = file
          /\ turn'.records = <<>>
          /\ turn'.drafted = <<>>
          /\ \A k \in 1..Len(Targets) :
                should_scan(file, Targets[k].domain, pass.kind, clock).result
                  => should_scan(file', Targets[k].domain, pass.kind, clock').result
      ]_vars

\* A dry-run prospect pass is through all its targets: it found signals for the
\* last one, and the store still does not exist.
C27_Witness ==
    /\ pass.kind = "prospect" /\ pass.dry_run
    /\ pass.i > Len(Targets)
    /\ pass.stats.signals > 0
    /\ turn.eligible /\ turn.found # <<>>
    /\ file = MissingFile

----------------------------------------------------------------------------
(* Properties of the prospect sources *)

\* The results of the category cat that are not the company's own.
Foreign(cat) ==
    SelectSeq(fn.responses[cat].results, LAMBDA item : ~Contains(item.url, fn.domain))

\* The signals of q tagged cat that did not come from a news page.
Searched(q, cat) ==
    SelectSeq(q, LAMBDA sig : sig.category = cat /\ sig.source_url \notin NewsUrls)

\* The signals of q that came from a news page.
Scraped(q) == SelectSeq(q, LAMBDA sig : sig.source_url \in NewsUrls)

\* The signals are the items, one for one and in order, tagged cat.
TaggedOneForOne(signals, items, cat) ==
    /\ Len(signals) = Len(items)
    /\ \A i \in 1..Len(items) :
          /\ signals[i].category = cat
          /\ signals[i].source_url = items[i].url
          /\ signals[i].headline = items[i].title
          /\ signals[i].snippet = Slice(items[i].description, 300)

\* C21: no signal of the search source has a source_url that contains the
\* company's domain, and when the key is set, every result of a category whose
\* query returned and whose URL does not contain the domain is one signal
\* tagged with that category, and the source has no other signal.
C21_SelfDomainFiltered ==
    fn.op = "prospect_company" =>
        LET signals == fn.search.signals
        IN /\ \A i \in 1..Len(signals) : ~Contains(signals[i].source_url, fn.domain)
           /\ fn.api_key # "" =>
                 /\ fn.search.success
                 /\ \A cat \in CategorySet :
                        ~fn.responses[cat].raised =>
                            TaggedOneForOne(Searched(signals, cat), Foreign(cat), cat)
                 /\ \A i \in 1..Len(signals) :
                        /\ signals[i].category \in CategorySet
                        /\ ~fn.responses[signals[i].category].raised

\* One query returned the company's own post and a press story, another a URL
\* with the domain in its path and a URL with the domain in other case; the
\* source has the press story and the other-case URL, and only them.
C21_Witness ==
    /\ fn.op = "prospect_company" /\ fn.api_key # ""
    /\ fn.responses["new_model"] = QueryReturned(<<OwnPost, PressStory>>)
    /\ fn.responses["regulatory"] = QueryReturned(<<MirrorPost, UpperCaseHost>>)
    /\ fn.responses["service_challenge"] = QueryReturned(<<>>)
    /\ fn.responses["ev_transition"] = QueryReturned(<<>>)
    /\ Len(fn.search.signals) = 2
    /\ fn.search.signals[1].source_url = PressStory.url
    /\ fn.search.signals[1].category = "new_model"
    /\ fn.search.signals[2].source_url = UpperCaseHost.url
    /\ fn.search.signals[2].category = "regulatory"

\* C22: in the pool of a company, a category whose query raised contributes
\* nothing, and so does the search source without a key and the page source
\* without a fetched page; every other category contributes its results that
\* are not the company's own, and the page source, if the target has a
\* news_url and the page was fetched, contributes what it scraped.
C22_PartialFailureNonFatal ==
    fn.op = "collect" =>
        /\ \A cat \in CategorySet :
              IF fn.api_key = "" \/ fn.responses[cat].raised
              THEN Searched(fn.pool, cat) = <<>>
              ELSE TaggedOneForOne(Searched(fn.pool, cat), Foreign(cat), cat)
        /\ IF fn.news_url = "" \/ ~fn.page.success
           THEN Scraped(fn.pool) = <<>>
           ELSE /\ Len(Scraped(fn.pool)) = 2
                /\ Scraped(fn.pool) = scrape_news_page(fn.news_url, fn.page).signals
        /\ \A i \in 1..Len(fn.pool) :
              fn.pool[i].source_url \in NewsUrls \/ fn.pool[i].category \in CategorySet

\* The first category's query raised and the fetch of the news page failed;
\* the pool has the press story a later category returned.
C22_Witness ==
    /\ fn.op = "collect" /\ fn.api_key # ""
    /\ fn.responses["new_model"].raised
    /\ fn.responses["ev_transition"] = QueryReturned(<<OwnPost, PressStory>>)
    /\ fn.news_url # "" /\ ~fn.page.success
    /\ \E i \in 1..Len(fn.pool) :
          /\ fn.pool[i].category = "ev_transition"
          /\ fn.pool[i].source_url = PressStory.url

\* The key is not set and the news page was fetched: the pool is what the page
\* source scraped.
C22_WitnessNoKey ==
    /\ fn.op = "collect" /\ fn.api_key = ""
    /\ fn.news_url # "" /\ fn.page.success
    /\ Len(fn.pool) = 2
    /\ \A i \in 1..2 : fn.pool[i].source_url = fn.news_url

\* The keywords of the table that occur in the lowered line, by position.
TableMatches(lower) ==
    {k \in 1..Len(NEWS_PAGE_KEYWORDS) : Contains(lower, KeywordsLowered[k])}

\* The category of the first keyword of the table that occurs in the line.
FirstCategory(lower) ==
    LET K == TableMatches(lower)
    IN NEWS_PAGE_KEYWORDS[CHOOSE k \in K : \A m \in K : k <= m][2]

\* C23: the page source emits one signal for each line that survives the
\* filters, holds a keyword of the table and does not repeat the headline of
\* such a line before it, in the order of the lines, and none for any other
\* line; the signal's category is that of the first keyword of the table, in
\* table order, that the line holds.
C23_FirstTableKeywordWins ==
    ( fn.op = "scrape_news_page" /\ fn.page.success ) =>
        LET lines == fn.page.lines
            stripped == [i \in 1..Len(lines) |-> Strip(lines[i])]
            lowered == [i \in 1..Len(lines) |-> Lower(stripped[i])]
            Candidates == {i \in 1..Len(lines) :
                              SurvivesFilters(stripped[i]) /\ TableMatches(lowered[i]) # {}}
            Emitting == {i \in Candidates :
                            \A j \in Candidates :
                                j < i => Slice(stripped[j], 150) # Slice(stripped[i], 150)}
            line_of == Pick([i \in 1..Len(lines) |-> i], Emitting)
        IN /\ Len(fn.signals) = Cardinality(Emitting)
           /\ Len(fn.signals) <= Len(lines)
           /\ \A k \in 1..Len(fn.signals) :
                 fn.signals[k] =
                     ProspectSignal(FirstCategory(lowered[line_of[k]]),
                                    Slice(stripped[line_of[k]], 150),
                                    Slice(stripped[line_of[k]], 300),
                                    fn.news_url)

\* A page of three lines: one holds "NHTSA" first and "hybrid" second, and
\* "hybrid" is the earlier in the table; one holds three keywords of two
\* categories; one is a tag list with a keyword. Two signals, one for each of
\* the first two lines.
C23_Witness ==
    /\ fn.op = "scrape_news_page" /\ fn.page.success
    /\ fn.page.lines = << "NHTSA opens hybrid emissions compliance probe",
                          "Acme unveils all-new electric vehicle",
                          "Electrification, Sustainability, Podcast" >>
    /\ Len(fn.signals) = 2
    /\ fn.signals[1].category = "ev_transition"
    /\ fn.signals[2].category = "new_model"

====
